---- MODULE Spec2Model ----
(***************************************************************************)
(* State-machine model of the lingobabe front end:                         *)
(*   - the welcome-survey wizard (MotivationPage, DailyGoalPage,           *)
(*     SuccessPage, BenefitsPage), specification SurveySpec;               *)
(*   - the token-gated ChatInterface component, specification ChatSpec.    *)
(* Handlers run to completion up to their first await; every continuation *)
(* after an await (a settled request, a timer) is an action of its own     *)
(* that works on the values its closure captured.                          *)
(***************************************************************************)
EXTENDS Integers, Sequences, FiniteSets, Bags, TLC

None == "none"

\* a value that may be missing: <<>> when it is, <<v>> when it is v
Absent == <<>>
Stored(v) == <<v>>

(***************************************************************************)
(* Bounds of the model.                                                    *)
(***************************************************************************)
MaxSubmitCalls == 3   \* calls of DailyGoalPage.handleSubmit in one run
MaxMounts == 6        \* page mounts (route changes) in one run
MaxChecks == 2        \* runs of ChatInterface's access-check effect in one run
MaxMessages == 2      \* ChatSpec: handleSend is called while fewer messages are in the chat
MaxBanners == 1       \* banner timers pending at once
MaxPipelineBanners == 2 \* the same, in the send pipeline taken alone
MaxPipelineMessages == 4  \* SendSpec: handleSend is called while fewer messages are in the chat

(***************************************************************************)
(* Survey wizard: data.                                                    *)
(***************************************************************************)
\* two of the five entries of timeOptions
TimeOptions == {"5 MIN/DAY", "30 MIN/DAY"}

\* two of the seven entries of reasons
Reasons == {"BOOST MY CAREER", "OTHER"}

Routes == {"motivation", "daily-goal", "success", "benefits", "language-selector"}

SurveyDataKey == "lingobabe_survey_data"
SurveyCompletedKey == "lingobabe_survey_completed"
SurveyKeys == {SurveyDataKey, SurveyCompletedKey}

\* outcomes of POST /api/submit-survey as handleSubmit sees them
PostOutcomes == {"ok", "httpError", "badBody", "networkError"}

VARIABLES
  route,              \* the page the router shows
  mountId,            \* instance number of the page component now mounted
  surveyData,         \* SurveyContext: [motivation, dailyGoal]
  isSubmitting,       \* DailyGoalPage state
  showLoadingScreen,  \* DailyGoalPage state
  isLoading,          \* BenefitsPage state
  storage,            \* localStorage, survey keys
  postLog,            \* every POST /api/submit-survey sent, in order
  pendingPosts,       \* indices of postLog not yet settled
  timers,             \* bag of pending setTimeout callbacks [owner, kind]
  navLog,             \* every router.push made by a wizard handler, in order
  submitCalls         \* number of handleSubmit calls so far

surveyVars == <<route, mountId, surveyData, isSubmitting, showLoadingScreen,
                isLoading, storage, postLog, pendingPosts, timers, navLog,
                submitCalls>>


(***************************************************************************)
(* ChatInterface: data.  The character table, the chat store and the       *)
(* token manager are outside the component; their inputs are drawn from    *)
(* small sets.  currentVideo and messageStats take no part in any guard    *)
(* and are left out.                                                       *)
(***************************************************************************)
\* ids for which isValidCharacterId holds
CharacterIds == {"c1"}

\* an id that is selected but not valid
InvalidId == "zz"

SelectableIds == CharacterIds \cup {InvalidId}

\* wallet addresses as useWeb3 gives them
Addresses == {"0xAB"}

\* address.toLowerCase()
Lower(a) == CASE a = "0xAB" -> "0xab" [] OTHER -> a

LowerAddresses == {Lower(a) : a \in Addresses}

\* the last scene: handleSend ends the chat when currentScene >= 5
LastScene == 5

\* number.toString()
Str(n) == [kind |-> "str", n |-> n]

\* the empty input
Blank == <<>>

\* the options of a scene of a valid character: text is the option's primary
\* text, points may be missing, the response may be missing ("none"), have
\* no primary text ("silent") or have one ("spoken")
Option(scene, k) ==
  [text |-> <<scene, k>>,
   points |-> CASE k = 1 -> Stored(30) [] k = 2 -> Stored(-30) [] OTHER -> Absent,
   response |-> CASE k = 1 -> "spoken" [] k = 2 -> "none" [] OTHER -> "silent"]

OptionIds == {1, 2, 3}

\* character: the selected character's entry, or null
Character(sel) == IF sel \in CharacterIds THEN sel ELSE None

\* currentSceneOptions: character?.scenes[currentScene]?.options || []
CurrentSceneOptions(sel, scene) ==
  IF Character(sel) # None /\ scene \in 0..LastScene
    THEN {Option(scene, k) : k \in OptionIds}
    ELSE {}

\* localStorage keys of the component
AccessKey(a, c) == <<"character_access", Lower(a), c>>
SceneKey(c, a) == <<"scene", c, Lower(a)>>
HappinessKey(a, c) == <<"lingobabe_happiness", Lower(a), c>>

ChatKeys ==
  {<<"character_access", a, c>> : a \in LowerAddresses, c \in SelectableIds}
    \cup {<<"scene", c, a>> : a \in LowerAddresses, c \in SelectableIds}
    \cup {<<"lingobabe_happiness", a, c>> : a \in LowerAddresses, c \in SelectableIds}

\* an access record as CharacterAccessControl leaves it, and a value that
\* JSON.parse rejects
GrantedRecord == [kind |-> "access", hasAccess |-> TRUE, completed |-> FALSE]
Garbage == [kind |-> "garbage"]

VARIABLES
  selectedCharacter,  \* useChatStore: the selected character id or None
  address,            \* useWeb3: the wallet address or None
  tmInitialized,      \* window.tokenManager?.initialized
  effectDue,          \* the [address, selectedCharacter] effect has to run
  effectRuns,         \* number of runs of that effect so far
  input,
  audioPlaying,
  isTransitioning,
  showEndPopup,
  showOptions,
  error,
  showError,
  hasAccess,
  isCheckingAccess,
  messages,           \* useChatStore: sequence of [role, scene]
  happiness,          \* useChatStore: character id -> value or None
  currentScene,       \* useChatStore
  chatStorage,        \* localStorage, the component's keys
  pendingChecks,      \* bag of tokenManager.checkAccess calls not settled
  pendingTts,         \* bag of POST /api/tts requests not settled
  playing,            \* audio elements playing, whose onended is still to come
  bannerTimers,       \* pending timers of showErrorMessage
  sceneTimers,        \* bag of pending next-scene timers, by the scene they set
  markCompleted,      \* calls of tokenManager.markChatCompleted, in order
  lastCheck           \* how the access check that finished last ended

chatVars == <<selectedCharacter, address, tmInitialized, effectDue, effectRuns,
              input, audioPlaying, isTransitioning, showEndPopup, showOptions,
              error, showError, hasAccess, isCheckingAccess, messages, happiness,
              currentScene, chatStorage, pendingChecks, pendingTts, playing,
              bannerTimers, sceneTimers, markCompleted, lastCheck>>

vars == <<surveyVars, chatVars>>

\* JSON.stringify of the survey-answers object: the members that are defined
Stringify(d) == {<<k, d[k]>> : k \in {f \in DOMAIN d : d[f] # None}}

\* handleSubmit's guard: the negation of its early return
HandleSubmitGuardNoGoalCheck(data, submitting) == ~submitting
HandleSubmitGuardNoSubmittingCheck(data, submitting) == data.dailyGoal # None
HandleSubmitGuard(data, submitting) == ~(data.dailyGoal = None \/ submitting)

\* the disabled prop of the CONTINUE button
ContinueDisabled(data, submitting) == data.dailyGoal = None \/ submitting

\* the CONTINUE button is part of the view only when the loading screen is not
ContinueShown == route = "daily-goal" /\ ~showLoadingScreen

\* localStorage.setItem(key, value): succeeds, or throws and writes nothing
SetItemNever(st, key, value, ok) == st
SetItem(st, key, value, ok) == IF ok THEN [st EXCEPT ![key] = Stored(value)] ELSE st

Timer(owner, kind) == [owner |-> owner, kind |-> kind]

\* the page a timer kind belongs to
PageOf(kind) ==
  CASE kind = "dailyGoal" -> "daily-goal"
    [] kind = "dailyGoalCatch" -> "daily-goal"
    [] kind = "success" -> "success"
    [] kind = "benefits" -> "benefits"

\* the wizard page before a page, where the browser's back navigation leads
Predecessor(r) ==
  CASE r = "daily-goal" -> "motivation"
    [] r = "success" -> "daily-goal"
    [] r = "benefits" -> "success"
    [] r = "language-selector" -> "benefits"

\* SuccessPage's effect cleanup: clearTimeout(timer) of the unmounting instance
ClearTimeout(tm, r, id) ==
  IF r = "success" /\ BagIn(Timer(id, "success"), tm)
    THEN tm (-) SetToBag({Timer(id, "success")})
    ELSE tm

(***************************************************************************)
(* The router shows page `to`.  st and tm are localStorage and the timers  *)
(* as the calling step leaves them.  A change of route unmounts the        *)
(* current page (its state is dropped, its effect cleanup runs) and mounts *)
(* the next; SuccessPage's effect runs at its mount.                       *)
(***************************************************************************)
Navigate(to, st, tm) ==
  IF to = route
    THEN /\ UNCHANGED <<route, mountId, isSubmitting, showLoadingScreen, isLoading>>
         /\ storage' = st
         /\ timers' = tm
    ELSE /\ mountId < MaxMounts
         /\ route' = to
         /\ mountId' = mountId + 1
         /\ isSubmitting' = FALSE
         /\ showLoadingScreen' = FALSE
         /\ isLoading' = FALSE
         /\ IF to = "success"
              THEN \E ok \in BOOLEAN :
                     /\ storage' = SetItem(st, SurveyCompletedKey, "true", ok)
                     /\ timers' = IF ok
                                    THEN ClearTimeout(tm, route, mountId)
                                           (+) SetToBag({Timer(mountId + 1, "success")})
                                    ELSE ClearTimeout(tm, route, mountId)
              ELSE /\ storage' = st
                   /\ timers' = ClearTimeout(tm, route, mountId)

\* router.push(to) made by the handler or timer `kind` of page instance `owner`
Push(to, owner, kind, st, tm) ==
  /\ Navigate(to, st, tm)
  /\ navLog' = Append(navLog, [to |-> to, from |-> route, kind |-> kind,
                               owner |-> owner,
                               live |-> owner = mountId /\ route = PageOf(kind)])

(***************************************************************************)
(* Survey wizard: actions.                                                 *)
(***************************************************************************)
\* MotivationPage.handleReasonSelect
HandleReasonSelect(reason) ==
  /\ route = "motivation"
  /\ surveyData' = [surveyData EXCEPT !.motivation = reason]
  /\ UNCHANGED <<route, mountId, isSubmitting, showLoadingScreen, isLoading,
                 storage, postLog, pendingPosts, timers, navLog, submitCalls>>

\* MotivationPage's ContinueButton: nextPage /welcome-survey/daily-goal
MotivationContinue ==
  /\ route = "motivation"
  /\ surveyData.motivation # None
  /\ Navigate("daily-goal", storage, timers)
  /\ UNCHANGED <<surveyData, postLog, pendingPosts, navLog, submitCalls>>

\* DailyGoalPage.handleTimeSelect; the option buttons are disabled while submitting
HandleTimeSelect(time) ==
  /\ route = "daily-goal"
  /\ ~showLoadingScreen
  /\ ~isSubmitting
  /\ surveyData' = [surveyData EXCEPT !.dailyGoal = time]
  /\ UNCHANGED <<route, mountId, isSubmitting, showLoadingScreen, isLoading,
                 storage, postLog, pendingPosts, timers, navLog, submitCalls>>

\* DailyGoalPage.handleSubmit up to its await of fetch
HandleSubmit ==
  /\ route = "daily-goal"
  /\ submitCalls < MaxSubmitCalls
  /\ submitCalls' = submitCalls + 1
  /\ IF HandleSubmitGuard(surveyData, isSubmitting)
       THEN /\ isSubmitting' = TRUE
            /\ showLoadingScreen' = TRUE
            /\ \E ok \in BOOLEAN :
                 /\ storage' = SetItem(storage, SurveyDataKey, Stringify(surveyData), ok)
                 /\ postLog' = Append(postLog, [owner |-> mountId,
                                                body |-> Stringify(surveyData),
                                                backup |-> storage'[SurveyDataKey],
                                                backupThrew |-> ~ok])
            /\ pendingPosts' = pendingPosts \cup {Len(postLog) + 1}
       ELSE UNCHANGED <<isSubmitting, showLoadingScreen, storage, postLog, pendingPosts>>
  /\ UNCHANGED <<route, mountId, surveyData, isLoading, timers, navLog>>

\* handleSubmit after fetch and response.json() have settled
PostSettle(i, outcome) ==
  /\ i \in pendingPosts
  /\ pendingPosts' = pendingPosts \ {i}
  /\ \E ok1 \in BOOLEAN, ok2 \in BOOLEAN :
       LET owner == postLog[i].owner
           parsed == outcome \in {"ok", "httpError"}
           st1 == SetItem(storage, SurveyCompletedKey, "true", ok1)
           st2 == SetItem(storage, SurveyCompletedKey, "true", ok2)
       IN IF parsed /\ ok1
            THEN \* try block: flag written, navigation delayed by a timer
                 /\ storage' = st1
                 /\ timers' = timers (+) SetToBag({Timer(owner, "dailyGoal")})
                 /\ UNCHANGED <<route, mountId, isSubmitting, showLoadingScreen,
                                isLoading, navLog>>
            ELSE \* catch block: after a rejected fetch or json(), or a throwing setItem
                 IF ok2
                   THEN Push("success", owner, "dailyGoalCatch", st2, timers)
                   ELSE UNCHANGED <<route, mountId, isSubmitting, showLoadingScreen,
                                    isLoading, storage, timers, navLog>>
  /\ UNCHANGED <<surveyData, postLog, submitCalls>>

\* BenefitsPage.handleContinue; GET STARTED is replaced by the loading view
HandleContinue ==
  /\ route = "benefits"
  /\ ~isLoading
  /\ isLoading' = TRUE
  /\ timers' = timers (+) SetToBag({Timer(mountId, "benefits")})
  /\ UNCHANGED <<route, mountId, surveyData, isSubmitting, showLoadingScreen,
                 storage, postLog, pendingPosts, navLog, submitCalls>>

\* a setTimeout callback runs: each of the three only calls router.push
TimerTarget(kind) ==
  CASE kind = "dailyGoal" -> "success"
    [] kind = "success" -> "benefits"
    [] kind = "benefits" -> "language-selector"

TimerFire(t) ==
  /\ BagIn(t, timers)
  /\ Push(TimerTarget(t.kind), t.owner, t.kind, storage, timers (-) SetToBag({t}))
  /\ UNCHANGED <<surveyData, postLog, pendingPosts, submitCalls>>

\* the user leaves the page shown through the browser's history
BrowserBack ==
  /\ route # "motivation"
  /\ Navigate(Predecessor(route), storage, timers)
  /\ UNCHANGED <<surveyData, postLog, pendingPosts, navLog, submitCalls>>

SurveyInit ==
  /\ route = "motivation"
  /\ mountId = 1
  /\ surveyData = [motivation |-> None, dailyGoal |-> None]
  /\ isSubmitting = FALSE
  /\ showLoadingScreen = FALSE
  /\ isLoading = FALSE
  /\ storage = [k \in SurveyKeys |-> Absent]
  /\ postLog = <<>>
  /\ pendingPosts = {}
  /\ timers = EmptyBag
  /\ navLog = <<>>
  /\ submitCalls = 0

SurveyNext ==
  \/ /\ \E reason \in Reasons : HandleReasonSelect(reason)
     /\ UNCHANGED chatVars
  \/ /\ MotivationContinue
     /\ UNCHANGED chatVars
  \/ /\ \E time \in TimeOptions : HandleTimeSelect(time)
     /\ UNCHANGED chatVars
  \/ /\ HandleSubmit
     /\ UNCHANGED chatVars
  \/ /\ \E i \in pendingPosts, outcome \in PostOutcomes : PostSettle(i, outcome)
     /\ UNCHANGED chatVars
  \/ /\ HandleContinue
     /\ UNCHANGED chatVars
  \/ /\ \E t \in BagToSet(timers) : TimerFire(t)
     /\ UNCHANGED chatVars
  \/ /\ BrowserBack
     /\ UNCHANGED chatVars

(***************************************************************************)
(* ChatInterface: pure parts.                                              *)
(***************************************************************************)
Min(a, b) == IF a < b THEN a ELSE b
Max(a, b) == IF a > b THEN a ELSE b

\* what the component returns: the two loading returns, the access-required
\* return, or the chat card
ChatView(checking, access, sel) ==
  IF checking THEN "verifying"
  ELSE IF ~access /\ sel # None THEN "accessRequired"
  ELSE "chat"

View == ChatView(isCheckingAccess, hasAccess, selectedCharacter)

\* the Alert is part of the chat card when showError && error
BannerShown == View = "chat" /\ showError /\ error # None

\* checkAccess's first test: no token manager, no address or no character
CheckAccessSkips(tm, a, sel) == ~tm \/ a = None \/ sel = None

\* hasAccess after checkAccess's catch block
AccessAfterCatchKept(prev) == prev
AccessAfterCatch(prev) == FALSE

\* hasAccess after a settled tokenManager.checkAccess call
AccessAfterCheck(outcome, prev) ==
  CASE outcome = "granted" -> TRUE
    [] outcome = "denied" -> FALSE
    [] outcome = "rejected" -> AccessAfterCatch(prev)

\* typeof selectedOption.points === 'number'
HasPointsNever(opt) == FALSE
HasPoints(opt) == opt.points # Absent

Clamp(x) == Min(100, Max(0, x))

\* handleSend's value for localStorage: happiness[selectedCharacter] || 50,
\* plus the points, clamped
NewHappiness(h, points) ==
  Clamp((IF h = Absent \/ h = Stored(0) THEN 50 ELSE h[1]) + points)

\* the chat store's updateHappiness(character, points)
UpdateHappiness(h, points) ==
  Stored(Clamp((IF h = Absent THEN 50 ELSE h[1]) + points))

\* ChatHeader's happiness prop: happiness[selectedCharacter || ''] || 50
DisplayedHappiness ==
  IF selectedCharacter \notin CharacterIds THEN 50
  ELSE IF happiness[selectedCharacter] = Absent
            \/ happiness[selectedCharacter] = Stored(0) THEN 50
  ELSE happiness[selectedCharacter][1]

\* handleSend's first guard: the negation of its early return
HandleSendGuardNoTransitionCheck(in, sel, transitioning, a) ==
  ~(in = Blank \/ sel = None \/ Character(sel) = None \/ a = None)
HandleSendGuard(in, sel, transitioning, a) ==
  ~(in = Blank \/ sel = None \/ Character(sel) = None \/ transitioning \/ a = None)

\* currentSceneOptions.find(opt => primaryText === input.trim())
FindOption(sel, scene, in) ==
  {opt \in CurrentSceneOptions(sel, scene) : opt.text = in}

\* the stored access record marked completed and revoked; a missing or
\* unparsable value, or a throwing setItem, leaves the store as it is
MarkRecordCompleted(st, key, ok) ==
  IF st[key] # Absent /\ st[key][1].kind = "access" /\ ok
    THEN [st EXCEPT ![key] = Stored([st[key][1] EXCEPT !.completed = TRUE,
                                                       !.hasAccess = FALSE])]
    ELSE st

\* a stored value that parses to a record with hasAccess true
StoredHasAccess(v) == v # Absent /\ v[1].kind = "access" /\ v[1].hasAccess

\* n calls of showErrorMessage in one step, the last with msg
ShowErrorMessage(n, msg) ==
  IF n = 0
    THEN UNCHANGED <<error, showError, bannerTimers>>
    ELSE /\ error' = msg
         /\ showError' = TRUE
         /\ bannerTimers' = bannerTimers + n

\* playAudio's guard: the negation of its early return (the text is never
\* empty where playAudio is called)
PlayAudioGuardAlways(playingNow) == TRUE
PlayAudioGuard(playingNow) == ~playingNow

TtsRequest(kind, scene, c, a) ==
  [kind |-> kind, scene |-> scene, character |-> c, address |-> a]

(***************************************************************************)
(* handleSend from "Progress to the next scene" to its end, with the scene,*)
(* character and address its closure captured.  st is localStorage as the  *)
(* step has left it; n and msg are the showErrorMessage calls already made *)
(* in the step.                                                            *)
(***************************************************************************)
Progression(scene, c, a, st, n, msg) ==
  \E okAccess \in BOOLEAN, okScene \in BOOLEAN, markThrows \in BOOLEAN :
    IF scene >= LastScene
      THEN /\ chatStorage' =
                [(IF tmInitialized
                    THEN MarkRecordCompleted(st, AccessKey(a, c), okAccess)
                    ELSE st) EXCEPT ![SceneKey(c, a)] = Absent]
           /\ markCompleted' = IF tmInitialized
                                 THEN Append(markCompleted, c)
                                 ELSE markCompleted
           /\ IF tmInitialized /\ ~markThrows
                THEN hasAccess' = FALSE
                ELSE UNCHANGED hasAccess
           /\ showEndPopup' = TRUE
           /\ input' = Blank
           /\ showOptions' = FALSE
           /\ ShowErrorMessage(n, msg)
           /\ UNCHANGED <<isTransitioning, sceneTimers>>
      ELSE IF okScene
        THEN /\ isTransitioning' = TRUE
             /\ chatStorage' = [st EXCEPT ![SceneKey(c, a)] = Stored(Str(scene + 1))]
             /\ sceneTimers' = sceneTimers (+) SetToBag({scene + 1})
             /\ input' = Blank
             /\ showOptions' = FALSE
             /\ ShowErrorMessage(n, msg)
             /\ UNCHANGED <<hasAccess, showEndPopup, markCompleted>>
        ELSE \* setItem threw: handleSend's catch block
             /\ ShowErrorMessage(n + 1, "send")
             /\ isTransitioning' = FALSE
             /\ input' = Blank
             /\ chatStorage' = st
             /\ UNCHANGED <<hasAccess, showEndPopup, markCompleted,
                            showOptions, sceneTimers>>

(***************************************************************************)
(* ChatInterface: actions.                                                 *)
(***************************************************************************)
\* the [address, selectedCharacter] effect: checkAccess up to its await
UseEffectCheckAccess ==
  /\ effectDue
  /\ effectDue' = FALSE
  /\ effectRuns' = effectRuns + 1
  /\ IF CheckAccessSkips(tmInitialized, address, selectedCharacter)
       THEN /\ isCheckingAccess' = FALSE
            /\ hasAccess' = FALSE
            /\ lastCheck' = "skipped"
            /\ UNCHANGED pendingChecks
       ELSE /\ isCheckingAccess' = TRUE
            /\ pendingChecks' = pendingChecks (+)
                 SetToBag({[address |-> address, character |-> selectedCharacter]})
            /\ UNCHANGED <<hasAccess, lastCheck>>
  /\ UNCHANGED <<selectedCharacter, address, tmInitialized, input, audioPlaying,
                 isTransitioning, showEndPopup, showOptions, error, showError,
                 messages, happiness, currentScene, chatStorage, pendingTts,
                 playing, bannerTimers, sceneTimers, markCompleted>>

\* checkAccess after tokenManager.checkAccess has settled
CheckSettle(c, outcome) ==
  /\ ~effectDue
  /\ BagIn(c, pendingChecks)
  /\ pendingChecks' = pendingChecks (-) SetToBag({c})
  /\ lastCheck' = outcome
  /\ hasAccess' = AccessAfterCheck(outcome, hasAccess)
  /\ error' = IF outcome = "rejected" THEN "access" ELSE error
  /\ chatStorage' = IF outcome = "denied"
                      THEN [chatStorage EXCEPT ![AccessKey(c.address, c.character)] = Absent]
                      ELSE chatStorage
  /\ isCheckingAccess' = FALSE
  /\ UNCHANGED <<selectedCharacter, address, tmInitialized, effectDue, effectRuns,
                 input, audioPlaying, isTransitioning, showEndPopup, showOptions,
                 showError, messages, happiness, currentScene, pendingTts, playing,
                 bannerTimers, sceneTimers, markCompleted>>

\* the wallet address (useWeb3) or the selected character (useChatStore) changes
SelectionChange(a, c) ==
  /\ ~effectDue
  /\ effectRuns < MaxChecks
  /\ (a # address /\ c = selectedCharacter) \/ (a = address /\ c # selectedCharacter)
  /\ address' = a
  /\ selectedCharacter' = c
  /\ effectDue' = TRUE
  /\ UNCHANGED <<tmInitialized, effectRuns, input, audioPlaying, isTransitioning,
                 showEndPopup, showOptions, error, showError, hasAccess,
                 isCheckingAccess, messages, happiness, currentScene, chatStorage,
                 pendingChecks, pendingTts, playing, bannerTimers, sceneTimers,
                 markCompleted, lastCheck>>

\* window.tokenManager finishes its initialization
TokenManagerReady ==
  /\ ~tmInitialized
  /\ tmInitialized' = TRUE
  /\ UNCHANGED <<selectedCharacter, address, effectDue, effectRuns, input,
                 audioPlaying, isTransitioning, showEndPopup, showOptions, error,
                 showError, hasAccess, isCheckingAccess, messages, happiness,
                 currentScene, chatStorage, pendingChecks, pendingTts, playing,
                 bannerTimers, sceneTimers, markCompleted, lastCheck>>

\* the handlers' filter: customEvent.detail?.characterId === selectedCharacter
EventMatchesAny(c, sel) == TRUE
EventMatches(c, sel) == c = sel

\* handleAccessChange: an accessStatusChanged event for character c
HandleAccessChange(c, value) ==
  /\ ~effectDue
  /\ hasAccess' = IF EventMatches(c, selectedCharacter) THEN value ELSE hasAccess
  /\ UNCHANGED <<selectedCharacter, address, tmInitialized, effectDue, effectRuns,
                 input, audioPlaying, isTransitioning, showEndPopup, showOptions,
                 error, showError, isCheckingAccess, messages, happiness,
                 currentScene, chatStorage, pendingChecks, pendingTts, playing,
                 bannerTimers, sceneTimers, markCompleted, lastCheck>>

\* handleChatCompleted: a chatCompleted event for character c
HandleChatCompleted(c) ==
  /\ ~effectDue
  /\ hasAccess' = IF EventMatches(c, selectedCharacter) THEN FALSE ELSE hasAccess
  /\ chatStorage' = IF EventMatches(c, selectedCharacter) /\ address # None
                      THEN [chatStorage EXCEPT ![AccessKey(address, selectedCharacter)] = Absent]
                      ELSE chatStorage
  /\ UNCHANGED <<selectedCharacter, address, tmInitialized, effectDue, effectRuns,
                 input, audioPlaying, isTransitioning, showEndPopup, showOptions,
                 error, showError, isCheckingAccess, messages, happiness,
                 currentScene, pendingChecks, pendingTts, playing, bannerTimers,
                 sceneTimers, markCompleted, lastCheck>>

\* handleAccessGranted, called by CharacterAccessControl on the access-required screen
HandleAccessGranted ==
  /\ ~effectDue
  /\ View = "accessRequired"
  /\ hasAccess' = TRUE
  /\ UNCHANGED <<selectedCharacter, address, tmInitialized, effectDue, effectRuns,
                 input, audioPlaying, isTransitioning, showEndPopup, showOptions,
                 error, showError, isCheckingAccess, messages, happiness,
                 currentScene, chatStorage, pendingChecks, pendingTts, playing,
                 bannerTimers, sceneTimers, markCompleted, lastCheck>>

\* the Show Options button: setShowOptions(!showOptions)
ToggleOptions ==
  /\ ~effectDue
  /\ View = "chat"
  /\ showOptions' = ~showOptions
  /\ UNCHANGED <<selectedCharacter, address, tmInitialized, effectDue, effectRuns,
                 input, audioPlaying, isTransitioning, showEndPopup, error,
                 showError, hasAccess, isCheckingAccess, messages, happiness,
                 currentScene, chatStorage, pendingChecks, pendingTts, playing,
                 bannerTimers, sceneTimers, markCompleted, lastCheck>>

\* handleOptionSelect: an option of the ChatOptions list is chosen
HandleOptionSelect(opt) ==
  /\ ~effectDue
  /\ View = "chat"
  /\ showOptions
  /\ opt \in CurrentSceneOptions(selectedCharacter, currentScene)
  /\ input' = opt.text
  /\ showOptions' = FALSE
  /\ UNCHANGED <<selectedCharacter, address, tmInitialized, effectDue, effectRuns,
                 audioPlaying, isTransitioning, showEndPopup, error, showError,
                 hasAccess, isCheckingAccess, messages, happiness, currentScene,
                 chatStorage, pendingChecks, pendingTts, playing, bannerTimers,
                 sceneTimers, markCompleted, lastCheck>>

\* handlePlayAudio on a message or an option: playAudio up to its await of fetch
HandlePlayAudio ==
  /\ ~effectDue
  /\ View = "chat"
  /\ messages # <<>> \/ (showOptions /\ CurrentSceneOptions(selectedCharacter, currentScene) # {})
  /\ PlayAudioGuard(audioPlaying)
  /\ audioPlaying' = TRUE
  /\ pendingTts' = pendingTts (+) SetToBag({TtsRequest("play", 0, None, None)})
  /\ UNCHANGED <<selectedCharacter, address, tmInitialized, effectDue, effectRuns,
                 input, isTransitioning, showEndPopup, showOptions, error, showError,
                 hasAccess, isCheckingAccess, messages, happiness, currentScene,
                 chatStorage, pendingChecks, playing, bannerTimers, sceneTimers,
                 markCompleted, lastCheck>>

\* handleSend up to its await of playAudio, or to its end when it does not wait
HandleSend ==
  /\ ~effectDue
  /\ View = "chat"
  /\ IF ~HandleSendGuard(input, selectedCharacter, isTransitioning, address)
       THEN /\ ShowErrorMessage(1, "invalid")
            /\ UNCHANGED <<input, audioPlaying, isTransitioning, showEndPopup,
                           showOptions, hasAccess, messages, happiness, chatStorage,
                           pendingTts, sceneTimers, markCompleted>>
     ELSE IF FindOption(selectedCharacter, currentScene, input) = {}
       THEN /\ ShowErrorMessage(1, "option")
            /\ UNCHANGED <<input, audioPlaying, isTransitioning, showEndPopup,
                           showOptions, hasAccess, messages, happiness, chatStorage,
                           pendingTts, sceneTimers, markCompleted>>
     ELSE
       LET opt == CHOOSE o \in FindOption(selectedCharacter, currentScene, input) : TRUE
           userMsg == [role |-> "user", scene |-> currentScene]
           reply == [role |-> "assistant", scene |-> currentScene]
       IN \E okHappiness \in BOOLEAN :
            /\ happiness' = IF HasPoints(opt)
                              THEN [happiness EXCEPT ![selectedCharacter] =
                                      UpdateHappiness(@, opt.points[1])]
                              ELSE happiness
            /\ IF HasPoints(opt) /\ ~okHappiness
                 THEN \* setItem threw: handleSend's catch block
                      /\ messages' = Append(messages, userMsg)
                      /\ ShowErrorMessage(1, "send")
                      /\ isTransitioning' = FALSE
                      /\ input' = Blank
                      /\ UNCHANGED <<audioPlaying, showEndPopup, showOptions,
                                     hasAccess, chatStorage, pendingTts, sceneTimers,
                                     markCompleted>>
                 ELSE
                   LET st == IF HasPoints(opt)
                               THEN [chatStorage EXCEPT
                                       ![HappinessKey(address, selectedCharacter)] =
                                         Stored(Str(NewHappiness(happiness[selectedCharacter],
                                                                 opt.points[1])))]
                               ELSE chatStorage
                   IN /\ messages' = IF opt.response = "none"
                                       THEN Append(messages, userMsg)
                                       ELSE Append(Append(messages, userMsg), reply)
                      /\ IF opt.response = "spoken" /\ PlayAudioGuard(audioPlaying)
                           THEN \* playAudio sends POST /api/tts; handleSend waits
                                /\ audioPlaying' = TRUE
                                /\ pendingTts' = pendingTts (+) SetToBag(
                                     {TtsRequest("send", currentScene,
                                                 selectedCharacter, address)})
                                /\ chatStorage' = st
                                /\ UNCHANGED <<input, isTransitioning, showEndPopup,
                                               showOptions, hasAccess, sceneTimers,
                                               markCompleted, error,
                                               showError, bannerTimers>>
                           ELSE /\ Progression(currentScene, selectedCharacter,
                                               address, st, 0, None)
                                /\ UNCHANGED <<audioPlaying, pendingTts>>
  /\ UNCHANGED <<selectedCharacter, address, tmInitialized, effectDue, effectRuns,
                 isCheckingAccess, currentScene, pendingChecks, playing, lastCheck>>

\* playAudio after POST /api/tts and audio.play() have settled; for a request
\* of handleSend, the rest of handleSend follows
TtsSettle(r, outcome) ==
  /\ ~effectDue
  /\ BagIn(r, pendingTts)
  /\ pendingTts' = pendingTts (-) SetToBag({r})
  /\ audioPlaying' = IF outcome = "played" THEN audioPlaying ELSE FALSE
  /\ playing' = IF outcome = "played" THEN playing + 1 ELSE playing
  /\ LET n == IF outcome = "played" THEN 0 ELSE 1
         msg == IF outcome = "played" THEN None ELSE "audio"
     IN IF r.kind = "send"
          THEN Progression(r.scene, r.character, r.address, chatStorage, n, msg)
          ELSE /\ ShowErrorMessage(n, msg)
               /\ UNCHANGED <<input, isTransitioning, showEndPopup, showOptions,
                              hasAccess, chatStorage, sceneTimers, markCompleted>>
  /\ UNCHANGED <<selectedCharacter, address, tmInitialized, effectDue, effectRuns,
                 isCheckingAccess, messages, happiness, currentScene, pendingChecks,
                 lastCheck>>

\* audio.onended
AudioEnded ==
  /\ playing > 0
  /\ playing' = playing - 1
  /\ audioPlaying' = FALSE
  /\ UNCHANGED <<selectedCharacter, address, tmInitialized, effectDue, effectRuns,
                 input, isTransitioning, showEndPopup, showOptions, error, showError,
                 hasAccess, isCheckingAccess, messages, happiness, currentScene,
                 chatStorage, pendingChecks, pendingTts, bannerTimers, sceneTimers,
                 markCompleted, lastCheck>>

\* the timer of showErrorMessage runs
BannerTimerFire ==
  /\ bannerTimers > 0
  /\ bannerTimers' = bannerTimers - 1
  /\ showError' = FALSE
  /\ error' = None
  /\ UNCHANGED <<selectedCharacter, address, tmInitialized, effectDue, effectRuns,
                 input, audioPlaying, isTransitioning, showEndPopup, showOptions,
                 hasAccess, isCheckingAccess, messages, happiness, currentScene,
                 chatStorage, pendingChecks, pendingTts, playing, sceneTimers,
                 markCompleted, lastCheck>>

\* the next-scene timer of handleSend runs
SceneTimerFire(n) ==
  /\ BagIn(n, sceneTimers)
  /\ sceneTimers' = sceneTimers (-) SetToBag({n})
  /\ currentScene' = n
  /\ isTransitioning' = FALSE
  /\ UNCHANGED <<selectedCharacter, address, tmInitialized, effectDue, effectRuns,
                 input, audioPlaying, showEndPopup, showOptions, error, showError,
                 hasAccess, isCheckingAccess, messages, happiness, chatStorage,
                 pendingChecks, pendingTts, playing, bannerTimers, markCompleted,
                 lastCheck>>

\* the component as constructed: the useState defaults, the store and
\* localStorage as an earlier visit may have left them
ChatInit ==
  /\ selectedCharacter \in {None, "c1"}
  /\ address \in Addresses
  /\ tmInitialized = FALSE
  /\ effectDue = TRUE
  /\ effectRuns = 0
  /\ input = Blank
  /\ audioPlaying = FALSE
  /\ isTransitioning = FALSE
  /\ showEndPopup = FALSE
  /\ showOptions = FALSE
  /\ error = None
  /\ showError = FALSE
  /\ hasAccess = FALSE
  /\ isCheckingAccess = TRUE
  /\ messages = <<>>
  /\ happiness = [c \in CharacterIds |-> Absent]
  /\ currentScene \in {LastScene - 1, LastScene}
  /\ \E v \in {Absent, Stored(GrantedRecord)} :
       chatStorage = [k \in ChatKeys |-> IF k[1] = "character_access" THEN v ELSE Absent]
  /\ pendingChecks = EmptyBag
  /\ pendingTts = EmptyBag
  /\ playing = 0
  /\ bannerTimers = 0
  /\ sceneTimers = EmptyBag
  /\ markCompleted = <<>>
  /\ lastCheck = None

ChatNext ==
  \/ /\ UseEffectCheckAccess
     /\ UNCHANGED surveyVars
  \/ /\ \E c \in BagToSet(pendingChecks), outcome \in {"granted", "denied", "rejected"} :
          CheckSettle(c, outcome)
     /\ UNCHANGED surveyVars
  \/ /\ \E a \in {None} \cup Addresses, c \in {None} \cup SelectableIds : SelectionChange(a, c)
     /\ UNCHANGED surveyVars
  \/ /\ TokenManagerReady
     /\ UNCHANGED surveyVars
  \/ /\ \E c \in SelectableIds, value \in BOOLEAN : HandleAccessChange(c, value)
     /\ UNCHANGED surveyVars
  \/ /\ \E c \in SelectableIds : HandleChatCompleted(c)
     /\ UNCHANGED surveyVars
  \/ /\ HandleAccessGranted
     /\ UNCHANGED surveyVars
  \/ /\ ToggleOptions
     /\ UNCHANGED surveyVars
  \/ /\ \E k \in OptionIds : HandleOptionSelect(Option(currentScene, k))
     /\ UNCHANGED surveyVars
  \/ /\ HandlePlayAudio
     /\ UNCHANGED surveyVars
  \/ /\ Len(messages) < MaxMessages
     /\ bannerTimers < MaxBanners
     /\ HandleSend
     /\ UNCHANGED surveyVars
  \/ /\ bannerTimers < MaxBanners
     /\ \E r \in BagToSet(pendingTts), outcome \in {"played", "failed", "playRejected"} :
          TtsSettle(r, outcome)
     /\ UNCHANGED surveyVars
  \/ /\ AudioEnded
     /\ UNCHANGED surveyVars
  \/ /\ BannerTimerFire
     /\ UNCHANGED surveyVars
  \/ /\ \E n \in BagToSet(sceneTimers) : SceneTimerFire(n)
     /\ UNCHANGED surveyVars

\* the chat card right after tokenManager.checkAccess has granted access to
\* the selected character; the store's scene is one of the last three
SendInit ==
  /\ selectedCharacter = "c1"
  /\ address \in Addresses
  /\ tmInitialized = TRUE
  /\ effectDue = FALSE
  /\ effectRuns = 1
  /\ input = Blank
  /\ audioPlaying = FALSE
  /\ isTransitioning = FALSE
  /\ showEndPopup = FALSE
  /\ showOptions = FALSE
  /\ error = None
  /\ showError = FALSE
  /\ hasAccess = TRUE
  /\ isCheckingAccess = FALSE
  /\ messages = <<>>
  /\ happiness = [c \in CharacterIds |-> Absent]
  /\ currentScene \in {LastScene - 2, LastScene - 1, LastScene}
  /\ \E v \in {Absent, Stored(GrantedRecord)} :
       chatStorage = [k \in ChatKeys |-> IF k[1] = "character_access" THEN v ELSE Absent]
  /\ pendingChecks = EmptyBag
  /\ pendingTts = EmptyBag
  /\ playing = 0
  /\ bannerTimers = 0
  /\ sceneTimers = EmptyBag
  /\ markCompleted = <<>>
  /\ lastCheck = "granted"

\* the send pipeline: what the user and the runtime can do on the chat card
SendNext ==
  \/ /\ ToggleOptions
     /\ UNCHANGED surveyVars
  \/ /\ \E k \in OptionIds : HandleOptionSelect(Option(currentScene, k))
     /\ UNCHANGED surveyVars
  \/ /\ HandlePlayAudio
     /\ UNCHANGED surveyVars
  \/ /\ Len(messages) < MaxPipelineMessages
     /\ bannerTimers < MaxPipelineBanners
     /\ HandleSend
     /\ UNCHANGED surveyVars
  \/ /\ bannerTimers < MaxPipelineBanners
     /\ \E r \in BagToSet(pendingTts), outcome \in {"played", "failed", "playRejected"} :
          TtsSettle(r, outcome)
     /\ UNCHANGED surveyVars
  \/ /\ AudioEnded
     /\ UNCHANGED surveyVars
  \/ /\ BannerTimerFire
     /\ UNCHANGED surveyVars
  \/ /\ \E n \in BagToSet(sceneTimers) : SceneTimerFire(n)
     /\ UNCHANGED surveyVars

\* the survey wizard while the chat is looked at, and the reverse
SurveyIdle == SurveyInit
ChatIdle ==
  /\ selectedCharacter = None
  /\ address = None
  /\ tmInitialized = FALSE
  /\ effectDue = TRUE
  /\ effectRuns = 0
  /\ input = Blank
  /\ audioPlaying = FALSE
  /\ isTransitioning = FALSE
  /\ showEndPopup = FALSE
  /\ showOptions = FALSE
  /\ error = None
  /\ showError = FALSE
  /\ hasAccess = FALSE
  /\ isCheckingAccess = TRUE
  /\ messages = <<>>
  /\ happiness = [c \in CharacterIds |-> Absent]
  /\ currentScene = 0
  /\ chatStorage = [k \in ChatKeys |-> Absent]
  /\ pendingChecks = EmptyBag
  /\ pendingTts = EmptyBag
  /\ playing = 0
  /\ bannerTimers = 0
  /\ sceneTimers = EmptyBag
  /\ markCompleted = <<>>
  /\ lastCheck = None

SurveyStart == SurveyInit /\ ChatIdle
ChatStart == ChatInit /\ SurveyIdle

SurveySpec == SurveyStart /\ [][SurveyNext]_vars
ChatSpec == ChatStart /\ [][ChatNext]_vars

\* timers run and pending requests settle; nothing obliges the user to act
ChatFairness ==
  /\ WF_vars(UseEffectCheckAccess /\ UNCHANGED surveyVars)
  /\ WF_vars(BannerTimerFire /\ UNCHANGED surveyVars)
  /\ WF_vars(AudioEnded /\ UNCHANGED surveyVars)
  /\ WF_vars(\E n \in BagToSet(sceneTimers) : SceneTimerFire(n) /\ UNCHANGED surveyVars)
  /\ WF_vars(\E c \in BagToSet(pendingChecks), outcome \in {"granted", "denied", "rejected"} :
               CheckSettle(c, outcome) /\ UNCHANGED surveyVars)
  /\ WF_vars(/\ bannerTimers < MaxBanners
             /\ \E r \in BagToSet(pendingTts), outcome \in {"played", "failed", "playRejected"} :
                  TtsSettle(r, outcome) /\ UNCHANGED surveyVars)

FairChatSpec == ChatStart /\ [][ChatNext]_vars /\ ChatFairness

SendStart == SendInit /\ SurveyIdle
SendSpec == SendStart /\ [][SendNext]_vars

(***************************************************************************)
(* Claims about the survey wizard.                                         *)
(***************************************************************************)
\* C4: the CONTINUE button is disabled exactly when handleSubmit's guard
\* rejects (no daily goal chosen, or a submission under way), and a call of
\* handleSubmit in that condition writes nothing to localStorage, sends no
\* POST /api/submit-survey, starts no timer and navigates nowhere.
C4_DisabledSubmitDoesNothing ==
  /\ [](route = "daily-goal" =>
          (ContinueDisabled(surveyData, isSubmitting)
             <=> ~HandleSubmitGuard(surveyData, isSubmitting)))
  /\ [][(submitCalls' # submitCalls /\ ContinueDisabled(surveyData, isSubmitting))
          => UNCHANGED <<storage, postLog, pendingPosts, timers, route, navLog>>]_vars

\* C4 witness: handleSubmit was called with no goal chosen and nothing was sent
C4_Witness ==
  /\ route = "daily-goal"
  /\ surveyData.dailyGoal = None
  /\ submitCalls > 0
  /\ postLog = <<>>
  /\ storage[SurveyDataKey] = Absent

\* C7: once the POST of a handleSubmit call has settled, in any of the four
\* ways, lingobabe_survey_completed is 'true' and the navigation to
\* /welcome-survey/success has been made or is scheduled by a timer.
C7_CompletedAfterSettle ==
  [][Cardinality(pendingPosts') < Cardinality(pendingPosts)
       => /\ storage'[SurveyCompletedKey] = Stored("true")
          /\ \/ Len(navLog') > Len(navLog)
             \/ BagCardinality(timers') > BagCardinality(timers)]_vars

C9_NoTimerAfterUnmount ==
  \A i \in DOMAIN navLog :
    navLog[i].kind \in {"dailyGoal", "success", "benefits"} => navLog[i].live

\* C10: whenever a wizard handler has navigated, lingobabe_survey_completed
\* is 'true', and every such navigation leads from a wizard page to the next
\* one: daily-goal -> success -> benefits -> language-selector.
C10_LinearWizard ==
  /\ navLog # <<>> => storage[SurveyCompletedKey] = Stored("true")
  /\ \A i \in DOMAIN navLog : navLog[i].from = Predecessor(navLog[i].to)

(***************************************************************************)
(* Claims about ChatInterface.                                             *)
(***************************************************************************)
\* C1: the chat card is shown only with access: while the check runs the
\* 'Verifying access...' screen is shown, and without access the 'Access
\* Required' screen, whatever selectedCharacter is.
C1_ChatOnlyWithAccess ==
  /\ View = "chat" => hasAccess
  /\ isCheckingAccess => View = "verifying"
  /\ (~isCheckingAccess /\ ~hasAccess) => View = "accessRequired"

\* C2: an access check that ends because the token manager is not
\* initialized, the address or the character is missing, or because
\* tokenManager.checkAccess rejects, leaves hasAccess false and
\* isCheckingAccess false.
C2_CheckDefaultsToNoAccess ==
  [][/\ (effectRuns' # effectRuns
           /\ (~tmInitialized \/ address = None \/ selectedCharacter = None))
          => (~hasAccess' /\ ~isCheckingAccess')
     /\ (BagCardinality(pendingChecks') < BagCardinality(pendingChecks)
           /\ lastCheck' = "rejected")
          => (~hasAccess' /\ ~isCheckingAccess')]_vars

\* C2 witness: tokenManager.checkAccess was called and rejected, and the
\* check has finished
C2_Witness ==
  /\ lastCheck = "rejected"
  /\ pendingChecks = EmptyBag
  /\ error = "access"
  /\ ~hasAccess
  /\ ~isCheckingAccess

\* C3: whenever the error text is set, a state follows in which the banner
\* is hidden and the error text is null again.
C3_BannerTransient == (error # None) ~> (error = None /\ ~showError)

\* a fresh choice in the option list: the step of handleOptionSelect
OptionSelected ==
  showOptions /\ ~showOptions' /\ input' # Blank /\ input' # input

\* C5: when an option is selected in the option list, the happiness shown
\* changes by the option's points.
C5_SelectUpdatesHappiness ==
  [][OptionSelected =>
       \A o \in FindOption(selectedCharacter, currentScene, input') :
         DisplayedHappiness' =
           DisplayedHappiness + (IF o.points = Absent THEN 0 ELSE o.points[1])]_vars

\* C5 as amended: selecting an option only copies its text into the input
\* and leaves happiness as it is; when handleSend then accepts that option,
\* the store's happiness of the selected character is updated with the
\* option's points.
C5_SendUpdatesHappiness ==
  [][/\ OptionSelected =>
          /\ happiness' = happiness
          /\ messages' = messages
          /\ FindOption(selectedCharacter, currentScene, input') # {}
     /\ Len(messages') > Len(messages) =>
          \A o \in FindOption(selectedCharacter, currentScene, input) :
            happiness' = IF o.points = Absent
                           THEN happiness
                           ELSE [happiness EXCEPT ![selectedCharacter] =
                                   UpdateHappiness(@, o.points[1])]]_vars

\* C5 witness: an option with points was selected and sent, and the shown
\* happiness has moved from its default
C5_Witness ==
  /\ messages # <<>>
  /\ selectedCharacter = "c1"
  /\ DisplayedHappiness = 80

\* C6: once the component has taken access away for the current address and
\* character, localStorage holds no record for them whose hasAccess is true.
C6_CacheMirrorsAccess ==
  [][(hasAccess /\ ~hasAccess' /\ address' # None /\ selectedCharacter' # None)
       => ~StoredHasAccess(chatStorage'[AccessKey(address', selectedCharacter')])]_vars

\* the number of tokenManager.markChatCompleted calls made for character c
MarkCompletedCalls(c) ==
  Cardinality({i \in DOMAIN markCompleted : markCompleted[i] = c})

\* C11: the step of handleSend that shows the end popup has, by then, marked
\* the stored access record completed and without access, called
\* tokenManager.markChatCompleted for the character and set hasAccess false.
C11_CompletedBeforePopup ==
  [][(~showEndPopup /\ showEndPopup') =>
       \E c \in CharacterIds, a \in Addresses :
         /\ markCompleted' = Append(markCompleted, c)
         /\ ~hasAccess'
         /\ ~StoredHasAccess(chatStorage'[AccessKey(a, c)])
         /\ StoredHasAccess(chatStorage[AccessKey(a, c)])
              => chatStorage'[AccessKey(a, c)][1].completed]_vars

\* C12: once showEndPopup is true, a state follows in which the chat card,
\* which holds the 'Conversation Ended' popup, is what the component renders.
C12_PopupShown == showEndPopup ~> (showEndPopup /\ View = "chat")

\* C13: while showEndPopup is true, hasAccess is false and
\* tokenManager.markChatCompleted has been called exactly once for the
\* selected character.
C13_RevokedAtEnd ==
  showEndPopup => (~hasAccess /\ MarkCompletedCalls(selectedCharacter) = 1)

\* a request handleSend has to reject
InvalidRequest ==
  \/ input = Blank
  \/ selectedCharacter \notin CharacterIds
  \/ isTransitioning
  \/ address = None
  \/ \A opt \in CurrentSceneOptions(selectedCharacter, currentScene) : opt.text # input

\* C14: a handleSend call on an invalid request adds no message, leaves
\* happiness, currentScene and localStorage unchanged, and shows the banner.
C14_RejectsInvalid ==
  [][(HandleSend /\ InvalidRequest) =>
       /\ messages' = messages
       /\ happiness' = happiness
       /\ currentScene' = currentScene
       /\ chatStorage' = chatStorage
       /\ pendingTts' = pendingTts
       /\ error' # None
       /\ showError'
       /\ bannerTimers' = bannerTimers + 1]_vars

\* C14 witness: handleSend has rejected an input that is no option of the
\* scene reached meanwhile, after an earlier message was accepted
C14_Witness ==
  /\ error = "option"
  /\ showError
  /\ input # Blank
  /\ messages # <<>>
  /\ View = "chat"

\* the scene persisted for the current selection is missing, the current
\* scene or the one after it
PersistedSceneOk ==
  (address # None /\ selectedCharacter # None) =>
    LET v == chatStorage[SceneKey(selectedCharacter, address)]
    IN v = Absent \/ v[1].n \in {currentScene, currentScene + 1}

\* C15: a send at a scene n < 5 sets isTransitioning, persists n + 1 and
\* starts the timer that sets currentScene to n + 1; the persisted scene is
\* always currentScene or currentScene + 1; currentScene never decreases
\* and never skips a value.
C15_SceneAdvancesByOne ==
  [][/\ currentScene' \in {currentScene, currentScene + 1}
     /\ PersistedSceneOk'
     /\ \A k \in ChatKeys :
          (k[1] = "scene" /\ chatStorage'[k] # chatStorage[k] /\ chatStorage'[k] # Absent)
            => /\ isTransitioning'
               /\ BagIn(chatStorage'[k][1].n, sceneTimers')
               /\ ~BagIn(chatStorage'[k][1].n, sceneTimers)]_vars

\* the user messages recorded for scene n
UserMessages(n) ==
  {i \in DOMAIN messages : messages[i].role = "user" /\ messages[i].scene = n}

\* C16: at most one user message is recorded for each scene, whatever the
\* interleaving of Send clicks with the TTS request handleSend waits for.
C16_OneMessagePerScene ==
  \A n \in 0..LastScene : Cardinality(UserMessages(n)) <= 1

\* the pair the access-check effect would capture now
CurrentSelection == [address |-> address, character |-> selectedCharacter]

\* the step settles the pending tokenManager.checkAccess call c
Settles(c) ==
  /\ BagIn(c, pendingChecks)
  /\ pendingChecks' = pendingChecks (-) SetToBag({c})

\* C17: the late result of a check started for an earlier address or
\* character changes neither hasAccess, nor error, nor the stored access
\* record of the pair selected now.
C17_StaleCheckIgnored ==
  [][\A c \in BagToSet(pendingChecks) :
       (Settles(c) /\ c # CurrentSelection) =>
         /\ hasAccess' = hasAccess
         /\ error' = error
         /\ (address # None /\ selectedCharacter # None) =>
              chatStorage'[AccessKey(address, selectedCharacter)]
                = chatStorage[AccessKey(address, selectedCharacter)]]_vars

\* C18: while a tokenManager.checkAccess call is pending, isCheckingAccess
\* is true.
C18_LoadingCoversCheck == pendingChecks # EmptyBag => isCheckingAccess

\* C19: an accessStatusChanged or chatCompleted event for another character
\* leaves hasAccess and localStorage unchanged; a matching
\* accessStatusChanged event sets hasAccess to the event's value; a matching
\* chatCompleted event sets hasAccess to false and removes the stored access
\* record of the current address and character.
C19_EventsFiltered ==
  [][\A c \in SelectableIds :
       /\ \A value \in BOOLEAN :
            HandleAccessChange(c, value) =>
              /\ chatStorage' = chatStorage
              /\ hasAccess' = IF c = selectedCharacter THEN value ELSE hasAccess
       /\ HandleChatCompleted(c) =>
            IF c = selectedCharacter
              THEN /\ ~hasAccess'
                   /\ chatStorage' =
                        IF address = None
                          THEN chatStorage
                          ELSE [chatStorage EXCEPT
                                  ![AccessKey(address, selectedCharacter)] = Absent]
              ELSE /\ hasAccess' = hasAccess
                   /\ chatStorage' = chatStorage]_vars

\* C19 witness: the check had granted access, nothing was sent, and an event
\* for the selected character has taken access away again
C19_Witness ==
  /\ selectedCharacter = "c1"
  /\ lastCheck = "granted"
  /\ effectRuns = 1
  /\ pendingChecks = EmptyBag
  /\ messages = <<>>
  /\ ~hasAccess
  /\ chatStorage[AccessKey(address, selectedCharacter)] = Absent

\* C20: the happiness handleSend writes to localStorage is
\* clamp(0, 100, h + points), h being the recorded happiness of the
\* character, or 50 when none is recorded (a recorded 0 counts as 0).
C20_HappinessWritten ==
  [][\A k \in ChatKeys :
       (k[1] = "lingobabe_happiness" /\ chatStorage'[k] # chatStorage[k]) =>
         \E o \in FindOption(selectedCharacter, currentScene, input) :
           /\ o.points # Absent
           /\ chatStorage'[k][1].n \in 0..100
           /\ chatStorage'[k][1].n =
                Clamp((IF happiness[selectedCharacter] = Absent
                         THEN 50
                         ELSE happiness[selectedCharacter][1]) + o.points[1])]_vars

\* TTS requests not settled plus playbacks not ended
TtsInFlight == BagCardinality(pendingTts) + playing

\* C21: at most one TTS request or playback is in flight; no step taken
\* while audioPlaying is true sends a POST /api/tts; after a playback has
\* ended or a request has failed audioPlaying is false.
C21_OneTtsInFlight ==
  /\ [](TtsInFlight <= 1 /\ (TtsInFlight = 1 => audioPlaying))
  /\ [][/\ audioPlaying => BagCardinality(pendingTts') <= BagCardinality(pendingTts)
        /\ TtsInFlight' < TtsInFlight => ~audioPlaying']_vars

\* C21 witness: Send was clicked again while the TTS request of the first
\* handleSend was pending, and no second request was sent
C21_Witness ==
  /\ BagCardinality(pendingTts) = 1
  /\ audioPlaying
  /\ \E n \in 0..LastScene : Cardinality(UserMessages(n)) >= 2

\* a step in which POST /api/tts or audio.play() of handleSend's request r fails
SendTtsFails(r) ==
  /\ r.kind = "send"
  /\ \E outcome \in {"failed", "playRejected"} : TtsSettle(r, outcome)

\* handleSend's scene progression for the scene captured in r has been done
ProgressionDone(r) ==
  IF r.scene >= LastScene
    THEN showEndPopup'
    ELSE /\ isTransitioning'
         /\ sceneTimers' = sceneTimers (+) SetToBag({r.scene + 1})

\* C22: when POST /api/tts or the playback fails inside handleSend,
\* audioPlaying is false afterwards, the banner with the audio message is
\* shown, the messages already added remain, the scene progression (next
\* scene or completion) is performed and the input is cleared.
C22_TtsFailureKeepsSend ==
  [][\A r \in BagToSet(pendingTts) :
       SendTtsFails(r) =>
         /\ ~audioPlaying'
         /\ BannerShown' /\ error' = "audio"
         /\ messages' = messages
         /\ ProgressionDone(r)
         /\ input' = Blank]_vars

\* C22, the completion branch alone: a TTS failure of the last scene's
\* handleSend leaves the audio banner on screen.
C22_BannerAtCompletion ==
  [][\A r \in BagToSet(pendingTts) :
       (SendTtsFails(r) /\ r.scene >= LastScene) =>
         (BannerShown' /\ error' = "audio")]_vars

\* the timer that runs is not the one of the latest showErrorMessage call:
\* all timers have the same delay, so they run in the order of the calls
EarlierTimerFires == BannerTimerFire /\ bannerTimers > 1

\* C23: when showErrorMessage was called again while an earlier timer was
\* pending, the earlier timer neither hides nor clears the later message;
\* the message stays until the timer of the later call runs.
C23_BannerOwnTimer ==
  [][EarlierTimerFires => (showError' = showError /\ error' = error)]_vars

\* C24: every POST /api/submit-survey of DailyGoalPage is sent after the
\* write of lingobabe_survey_data with the same surveyData object as the
\* request body, so the key holds the body when the POST goes out unless
\* the write threw; and a handleSubmit that passes its guard sends the POST
\* whether the write threw or not.
C24_BackupBeforePost ==
  /\ [](\A i \in DOMAIN postLog :
          ~postLog[i].backupThrew => postLog[i].backup = Stored(postLog[i].body))
  /\ [][(/\ submitCalls' # submitCalls
         /\ surveyData.dailyGoal # None
         /\ ~isSubmitting)
          => /\ Len(postLog') = Len(postLog) + 1
             /\ postLog'[Len(postLog')].body = Stringify(surveyData)]_vars

\* C24 witness: one POST was sent after a backup write that threw, another
\* after one that succeeded
C24_Witness ==
  \E i, j \in DOMAIN postLog :
    /\ postLog[i].backupThrew
    /\ postLog[i].backup # Stored(postLog[i].body)
    /\ ~postLog[j].backupThrew
    /\ postLog[j].backup = Stored(postLog[j].body)

====
